---- MODULE Spec2Model ----
(***************************************************************************)
(* Model of Log_Parser.py: a lookup table is loaded from a CSV file, a     *)
(* flow log is scanned line by line and every valid record is tagged and   *)
(* counted, and the two count tables are written to an output file.        *)
(*                                                                         *)
(* Text is modelled as a sequence of one-character strings, so that        *)
(* str.strip, str.lower, str.split, csv.reader and int() are computed      *)
(* character by character.  A dict is modelled as a sequence of            *)
(* <<key, value>> pairs in insertion order, which is the iteration order   *)
(* of a Python dict and so the tie order of the stable sorted().           *)
(***************************************************************************)
EXTENDS Integers, Sequences, FiniteSets, TLC

\* ------------------------------------------------------------------ bounds
MaxRows == 2      \* data rows read from the lookup file
MaxLines == 2     \* lines read from the flow log

\* ------------------------------------------------------------- characters
Upper == <<"A","B","C","D","E","F","G","H","I","J","K","L","M",
           "N","O","P","Q","R","S","T","U","V","W","X","Y","Z">>
Lower == <<"a","b","c","d","e","f","g","h","i","j","k","l","m",
           "n","o","p","q","r","s","t","u","v","w","x","y","z">>
DigitChars == <<"0","1","2","3","4","5","6","7","8","9">>
Whitespace == {" ", "\t", "\n"}

\* str.lower() on one character
LowerChar(c) ==
    IF \E i \in 1..Len(Upper) : Upper[i] = c
    THEN Lower[CHOOSE i \in 1..Len(Upper) : Upper[i] = c]
    ELSE c

\* str.lower()
lower(s) == [i \in 1..Len(s) |-> LowerChar(s[i])]

\* str.strip(): drop leading and trailing whitespace
RECURSIVE lstrip(_)
lstrip(s) ==
    IF s # <<>> /\ Head(s) \in Whitespace THEN lstrip(Tail(s)) ELSE s

RECURSIVE rstrip(_)
rstrip(s) ==
    IF s # <<>> /\ s[Len(s)] \in Whitespace
    THEN rstrip(SubSeq(s, 1, Len(s) - 1))
    ELSE s

strip(s) == rstrip(lstrip(s))

\* str.startswith(prefix)
startswith(s, prefix) ==
    /\ Len(s) >= Len(prefix)
    /\ SubSeq(s, 1, Len(prefix)) = prefix

\* str.split(): split on runs of whitespace, no empty fields
RECURSIVE SplitWs(_, _, _)
SplitWs(s, cur, acc) ==
    IF s = <<>>
    THEN IF cur = <<>> THEN acc ELSE Append(acc, cur)
    ELSE IF Head(s) \in Whitespace
         THEN SplitWs(Tail(s), <<>>, IF cur = <<>> THEN acc ELSE Append(acc, cur))
         ELSE SplitWs(Tail(s), Append(cur, Head(s)), acc)

split(s) == SplitWs(s, <<>>, <<>>)

\* str.split(sep): split on every occurrence of sep, empty fields kept
RECURSIVE SplitSep(_, _, _, _)
SplitSep(s, sep, cur, acc) ==
    IF s = <<>>
    THEN Append(acc, cur)
    ELSE IF Head(s) = sep
         THEN SplitSep(Tail(s), sep, <<>>, Append(acc, cur))
         ELSE SplitSep(Tail(s), sep, Append(cur, Head(s)), acc)

split_on(s, sep) == SplitSep(s, sep, <<>>, <<>>)

\* one row of csv.reader: an empty line is the row [], any other line is
\* split on commas (the inputs carry no quote characters)
csv_row(text) ==
    IF text = <<>> THEN <<>> ELSE split_on(text, ",")

\* int(s) on a string without surrounding whitespace: an optional sign and
\* then one or more decimal digits; anything else raises ValueError
IsDigit(c) == \E i \in 1..Len(DigitChars) : DigitChars[i] = c

DigitVal(c) == (CHOOSE i \in 1..Len(DigitChars) : DigitChars[i] = c) - 1

IntBody(s) == IF s # <<>> /\ Head(s) \in {"-", "+"} THEN Tail(s) ELSE s

IntRaises(s) ==
    \/ IntBody(s) = <<>>
    \/ \E i \in 1..Len(IntBody(s)) : ~IsDigit(IntBody(s)[i])

RECURSIVE IntDigits(_)
IntDigits(s) ==
    IF s = <<>> THEN 0
    ELSE 10 * IntDigits(SubSeq(s, 1, Len(s) - 1)) + DigitVal(s[Len(s)])

int(s) ==
    IF s # <<>> /\ Head(s) = "-" THEN 0 - IntDigits(IntBody(s))
    ELSE IntDigits(IntBody(s))

\* ------------------------------------------------------------------ dicts
DictHas(d, k) == \E i \in 1..Len(d) : d[i][1] = k

DictIndex(d, k) == CHOOSE i \in 1..Len(d) : d[i][1] = k

\* d[k] = v : an existing key keeps its position, a new key is appended
DictSet(d, k, v) ==
    IF DictHas(d, k)
    THEN [d EXCEPT ![DictIndex(d, k)] = <<k, v>>]
    ELSE Append(d, <<k, v>>)

\* dict.get(k, default)
DictGetMutant(d, k, default) == default

DictGet(d, k, default) ==
    IF DictHas(d, k) THEN d[DictIndex(d, k)][2] ELSE default

\* defaultdict(int)[k] : a missing key reads as int() = 0
DefaultGetMutant(d, k) ==
    IF DictHas(d, k) THEN d[DictIndex(d, k)][2] ELSE 0 - 1

DefaultGet(d, k) ==
    IF DictHas(d, k) THEN d[DictIndex(d, k)][2] ELSE 0

\* counts[k] += 1 on a defaultdict(int)
Increment(d, k) == DictSet(d, k, DefaultGet(d, k) + 1)

\* ------------------------------------------------------ protocol resolver
\* None, the value of a Python function that falls off its end.  It is a
\* one-element sequence holding a four-character string, so it differs from
\* every text (a sequence of one-character strings).
None == <<"None">>

\* the module namespace vars(socket) scanned by get_protocol_name, as
\* (name, value) pairs in iteration order: one constant that is not a
\* protocol number and the protocol constants for 0 (two names), 6 and 17
SocketVars == <<
    <<<<"S","O","C","K","_","R","A","W">>, 3>>,
    <<<<"I","P","P","R","O","T","O","_","I","P">>, 0>>,
    <<<<"I","P","P","R","O","T","O","_","H","O","P","O","P","T","S">>, 0>>,
    <<<<"I","P","P","R","O","T","O","_","T","C","P">>, 6>>,
    <<<<"I","P","P","R","O","T","O","_","U","D","P">>, 17>> >>

IPPROTO_ == <<"I","P","P","R","O","T","O","_">>
unknown == <<"u","n","k","n","o","w","n">>
Untagged == <<"U","n","t","a","g","g","e","d">>

\* name.lower().split('_')[-1]
ProtocolSuffix(name) ==
    LET parts == split_on(lower(name), "_") IN parts[Len(parts)]

\* the loop evaluates int(protocol_number) at the first name that starts
\* with IPPROTO_, so a non-numeric argument raises ValueError there
ResolveRaises(protocol_number) ==
    /\ \E i \in 1..Len(SocketVars) : startswith(SocketVars[i][1], IPPROTO_)
    /\ IntRaises(protocol_number)

ResolveMatches(protocol_number) ==
    { i \in 1..Len(SocketVars) :
        /\ startswith(SocketVars[i][1], IPPROTO_)
        /\ SocketVars[i][2] = int(protocol_number) }

\* get_protocol_name: the first matching name; 'unknown' from the except
\* clause; None when the loop ends without a match
get_protocol_name(protocol_number) ==
    IF ResolveRaises(protocol_number) THEN unknown
    ELSE IF ResolveMatches(protocol_number) # {}
         THEN LET first == CHOOSE i \in ResolveMatches(protocol_number) :
                               \A j \in ResolveMatches(protocol_number) : i <= j
              IN ProtocolSuffix(SocketVars[first][1])
         ELSE None

\* ----------------------------------------------------------------- inputs
\* lines of the lookup file
HeaderLine == <<"d","s","t","p","o","r","t",",","p","r","o","t","o","c","o","l",",","t","a","g">>
RowWeb == <<"8","0",",","t","c","p",",","w","e","b">>
RowAlt == <<" ","8","0"," ",","," ","T","C","P"," ",","," ","a","l","t"," ",",","x">>
RowNoProtocol == <<"8","0",",",",","w","e","b">>
RowBlankCells == <<" ",","," ",","," ">>
RowTwoCells == <<"8","0",",","t","c","p">>
RowEmpty == <<>>

EndOfFile == <<"EOF">>

FirstLines == {HeaderLine, RowEmpty, RowBlankCells, RowWeb}
RowLines == {RowWeb, RowAlt, RowNoProtocol, RowBlankCells, RowTwoCells,
            RowEmpty}

\* lines of the flow log: the destination port is field 7 and the protocol
\* number field 8
RECURSIVE Join(_, _)
Join(fields, sep) ==
    IF fields = <<>> THEN <<>>
    ELSE IF Len(fields) = 1 THEN fields[1]
    ELSE fields[1] \o sep \o Join(Tail(fields), sep)

Record(dstport, protocol_number) ==
    << <<"2">>, <<"a","c","c">>, <<"e","n","i">>, <<"s">>, <<"d">>,
       <<"4","4","3">>, dstport, protocol_number, <<"5">>, <<"6","0">>,
       <<"1">>, <<"2">>, <<"O","K">>, <<"O","K">> >>

FlowLine(dstport, protocol_number) ==
    Join(Record(dstport, protocol_number), <<" ">>) \o <<"\n">>

LineTcp == FlowLine(<<"8","0">>, <<"6">>)
LineUdp == FlowLine(<<"9">>, <<"1","7">>)
LineHopopts == FlowLine(<<"9">>, <<"0">>)
LineUnlisted == FlowLine(<<"8","0">>, <<"9","9">>)
LineNoProtocol == FlowLine(<<"8","0">>, <<"-">>)
LineNoPort == FlowLine(<<"-">>, <<"6">>)
LineTabs == <<" ">> \o Join(Record(<<"8","0">>, <<"6">>), <<" ","\t">>) \o <<" ","\n">>
LineOf13 == Join(SubSeq(Record(<<"8","0">>, <<"6">>), 1, 13), <<" ">>) \o <<"\n">>
LineOf15 == Join(Record(<<"8","0">>, <<"6">>) \o << <<"x">> >>, <<" ">>) \o <<"\n">>
LineBlank == <<"\n">>

FlowLines == {LineTcp, LineUdp, LineHopopts, LineUnlisted, LineNoProtocol,
              LineNoPort, LineTabs, LineOf13, LineOf15, LineBlank}

\* ------------------------------------------------------------------ state
VARIABLES
    pc,                    \* position of the run
    exc,                   \* exception in flight, "none" when there is none
    raisedBy,              \* the stage that raised it
    escaped,               \* an exception left log_parser
    header,                \* load_lookup_table: first row of the reader
    row,                   \* load_lookup_table: row of the current iteration
    lookup_table,          \* the (dstport, protocol) -> tag dict
    nrows,                 \* data rows read so far
    line,                  \* process_flow_logs: line of the current iteration
    protocol_name,         \* process_flow_logs: last resolved protocol name
    tag_counts,            \* defaultdict(int) of tag -> count
    port_protocol_counts,  \* defaultdict(int) of (dstport, protocol) -> count
    nlines,                \* lines read so far
    accepted,              \* lines that passed the field-count check
    outOpened,             \* the output file was opened for writing
    sorted_counts,         \* write_output: tag items in output order
    sorted_protocols,      \* write_output: port/protocol items in output order
    output,                \* lines of the output file
    log,                   \* records appended to the process log
    started,               \* stages entered, in order
    completed              \* stages that returned normally, in order

vars == <<pc, exc, raisedBy, escaped, header, row, lookup_table, nrows, line,
          protocol_name, tag_counts, port_protocol_counts, nlines, accepted,
          outOpened, sorted_counts, sorted_protocols, output, log, started,
          completed>>

loaderVars == <<header, row, lookup_table, nrows>>
processorVars == <<line, protocol_name, tag_counts, port_protocol_counts,
                   nlines, accepted>>
writerVars == <<outOpened, sorted_counts, sorted_protocols, output>>

\* a local variable that is not assigned, before its first assignment and
\* after its function has returned: a text, a row or list
Unset == <<"Unset">>
UnsetRow == <<Unset>>
\* next(reader, None) at the end of the file
NoneRow == <<None>>
OldReport == <<"old report">>

\* state when log_parser is called: no stage has run, the output file
\* holds the report of an earlier run
Init ==
    /\ pc = "load"
    /\ exc = "none"
    /\ raisedBy = "none"
    /\ escaped = FALSE
    /\ header = UnsetRow
    /\ row = UnsetRow
    /\ lookup_table = <<>>
    /\ nrows = 0
    /\ line = Unset
    /\ protocol_name = Unset
    /\ tag_counts = <<>>
    /\ port_protocol_counts = <<>>
    /\ nlines = 0
    /\ accepted = 0
    /\ outOpened = FALSE
    /\ sorted_counts = UnsetRow
    /\ sorted_protocols = UnsetRow
    /\ output = <<OldReport>>
    /\ log = <<>>
    /\ started = <<>>
    /\ completed = <<>>

\* ------------------------------------------------------------- exceptions
\* a try block: control goes on to next unless an exception is in flight,
\* and then to the except clauses of log_parser
AfterStageMutant(next, e) == next

AfterStage(next, e) == IF e = "none" THEN next ELSE "except"

\* --------------------------------------------------- load_lookup_table
\* `not header`: None (no first row) or [] (an empty first line)
HeaderMissingMutant(h) == h = NoneRow

HeaderMissing(h) == h = NoneRow \/ h = <<>>

\* the rows the loop skips: not row, len(row) < 3, or every cell blank
RowSkipped(r) ==
    \/ r = <<>>
    \/ Len(r) < 3
    \/ \A i \in 1..Len(r) : strip(r[i]) = <<>>

\* the (dstport, protocol) key and the tag stored for a row
RowKey(r) == <<strip(r[1]), lower(strip(r[2]))>>
RowTag(r) == strip(r[3])

\* entry of load_lookup_table: the existence check and open()
LoadStart ==
    /\ pc = "load"
    /\ started' = Append(started, "load")
    /\ \/ /\ exc' = "FileNotFoundError"
          /\ raisedBy' = "load"
          /\ log' = Append(log, <<"ERROR", "lookup file not found">>)
          /\ pc' = AfterStage("load_header", exc')
       \/ /\ exc' = "PermissionError"
          /\ raisedBy' = "load"
          /\ log' = log
          /\ pc' = AfterStage("load_header", exc')
       \/ /\ pc' = AfterStage("load_header", exc)
          /\ UNCHANGED <<exc, raisedBy, log>>
    /\ UNCHANGED <<escaped, completed>>
    /\ UNCHANGED <<loaderVars, processorVars, writerVars>>

\* header = next(reader, None) and the check of it
LoadHeader ==
    /\ pc = "load_header"
    /\ \E first \in FirstLines \cup {EndOfFile} :
          header' = IF first = EndOfFile THEN NoneRow ELSE csv_row(first)
    /\ IF HeaderMissing(header')
       THEN /\ exc' = "ValueError"
            /\ raisedBy' = "load"
            /\ log' = Append(log, <<"ERROR", "lookup file empty or invalid">>)
       ELSE UNCHANGED <<exc, raisedBy, log>>
    /\ pc' = AfterStage("load_rows", exc')
    /\ UNCHANGED <<escaped, started, completed, row, lookup_table, nrows>>
    /\ UNCHANGED <<processorVars, writerVars>>

\* one iteration of `for row in reader`
LoadRow ==
    /\ pc = "load_rows"
    /\ nrows < MaxRows
    /\ \E text \in RowLines : row' = csv_row(text)
    /\ nrows' = nrows + 1
    /\ lookup_table' = IF RowSkipped(row')
                       THEN lookup_table
                       ELSE DictSet(lookup_table, RowKey(row'), RowTag(row'))
    /\ UNCHANGED <<pc, exc, raisedBy, escaped, header, log, started, completed>>
    /\ UNCHANGED <<processorVars, writerVars>>

\* the reader is exhausted: log the size and return the table
LoadReturn ==
    /\ pc = "load_rows"
    /\ log' = Append(log, <<"INFO", "loaded mappings", Len(lookup_table)>>)
    /\ completed' = Append(completed, "load")
    /\ pc' = AfterStage("process", exc)
    /\ header' = UnsetRow
    /\ row' = UnsetRow
    /\ UNCHANGED <<exc, raisedBy, escaped, started, lookup_table, nrows>>
    /\ UNCHANGED <<processorVars, writerVars>>

\* --------------------------------------------------- process_flow_logs
\* entry of process_flow_logs: the existence check and open()
ProcessStart ==
    /\ pc = "process"
    /\ started' = Append(started, "process")
    /\ \/ /\ exc' = "FileNotFoundError"
          /\ raisedBy' = "process"
          /\ log' = Append(log, <<"ERROR", "flow log file not found">>)
          /\ pc' = AfterStage("process_lines", exc')
       \/ /\ exc' = "PermissionError"
          /\ raisedBy' = "process"
          /\ log' = log
          /\ pc' = AfterStage("process_lines", exc')
       \/ /\ pc' = AfterStage("process_lines", exc)
          /\ UNCHANGED <<exc, raisedBy, log>>
    /\ UNCHANGED <<escaped, completed>>
    /\ UNCHANGED <<loaderVars, processorVars, writerVars>>

\* fields = line.split(), for every line of the input set
line_split == [text \in FlowLines |-> split(text)]

\* one iteration of `for line in file`
ProcessLine ==
    /\ pc = "process_lines"
    /\ nlines < MaxLines
    /\ \E text \in FlowLines : line' = text
    /\ nlines' = nlines + 1
    /\ LET fields == line_split[line'] IN
       IF Len(fields) < 14
       THEN \* continue
            /\ UNCHANGED <<pc, exc, raisedBy, log>>
            /\ UNCHANGED <<protocol_name, tag_counts, port_protocol_counts,
                           accepted>>
       ELSE IF Len(fields) # 14
       THEN \* the 14-name unpacking raises ValueError
            /\ exc' = "ValueError"
            /\ raisedBy' = "process"
            /\ pc' = AfterStage("process_lines", exc')
            /\ UNCHANGED <<log, protocol_name, tag_counts,
                           port_protocol_counts, accepted>>
       ELSE LET dstport == fields[7]
                protocol_number == fields[8]
                name == get_protocol_name(protocol_number)
                tag == DictGet(lookup_table, <<dstport, name>>, Untagged)
            IN /\ protocol_name' = name
               /\ log' = IF ResolveRaises(protocol_number)
                         THEN Append(log, <<"WARNING", "unknown protocol number">>)
                         ELSE log
               /\ tag_counts' = Increment(tag_counts, tag)
               /\ port_protocol_counts' =
                      Increment(port_protocol_counts, <<dstport, name>>)
               /\ accepted' = accepted + 1
               /\ UNCHANGED <<pc, exc, raisedBy>>
    /\ UNCHANGED <<escaped, started, completed>>
    /\ UNCHANGED <<loaderVars, writerVars>>

\* the file is exhausted: log and return both dicts
ProcessReturn ==
    /\ pc = "process_lines"
    /\ log' = Append(log, <<"INFO", "finished processing">>)
    /\ completed' = Append(completed, "process")
    /\ pc' = AfterStage("write", exc)
    /\ line' = Unset
    /\ protocol_name' = Unset
    /\ UNCHANGED <<exc, raisedBy, escaped, started, tag_counts,
                   port_protocol_counts, nlines, accepted>>
    /\ UNCHANGED <<loaderVars, writerVars>>

\* ---------------------------------------------------------- write_output
\* str(n) of a non-negative int
RECURSIVE str(_)
str(n) ==
    IF n < 10 THEN <<DigitChars[n + 1]>>
    ELSE str(n \div 10) \o <<DigitChars[(n % 10) + 1]>>

\* an f-string field: None is formatted as the text None
Format(x) == IF x = None THEN <<"N","o","n","e">> ELSE x

\* comparison of two sort keys, tuples of ints of one length
RECURSIVE LexLess(_, _)
LexLess(a, b) ==
    /\ a # <<>>
    /\ \/ a[1] < b[1]
       \/ a[1] = b[1] /\ LexLess(Tail(a), Tail(b))

\* sorted() is stable: an item goes after the items whose key is not greater
RECURSIVE InsertSorted(_, _)
InsertSorted(s, x) ==
    IF s # <<>> /\ LexLess(x.key, s[Len(s)].key)
    THEN Append(InsertSorted(SubSeq(s, 1, Len(s) - 1), x), s[Len(s)])
    ELSE Append(s, x)

RECURSIVE SortedKeyed(_)
SortedKeyed(s) ==
    IF s = <<>> THEN <<>>
    ELSE InsertSorted(SortedKeyed(SubSeq(s, 1, Len(s) - 1)), s[Len(s)])

Items(keyed) == [i \in 1..Len(keyed) |-> keyed[i].item]

\* sorted(tag_counts.items(), key=lambda x: x[1])
SortedCounts(d) ==
    Items(SortedKeyed([i \in 1..Len(d) |-> [key |-> <<d[i][2]>>, item |-> d[i]]]))

\* the key (x[1], int(x[0][0])) raises ValueError on a non-numeric port
SortedProtocolsRaises(d) == \E i \in 1..Len(d) : IntRaises(d[i][1][1])

\* sorted(port_protocol_counts.items(), key=lambda x: (x[1], int(x[0][0])))
SortedProtocols(d) ==
    Items(SortedKeyed([i \in 1..Len(d) |->
             [key |-> <<d[i][2], int(d[i][1][1])>>, item |-> d[i]]]))

TagHeading == <<"T","a","g"," ","C","o","u","n","t","s",":","\n">>
TagColumns == <<"T","a","g",",","C","o","u","n","t","\n">>
PortHeading == <<"\n","P","o","r","t","/","P","r","o","t","o","c","o","l"," ","C","o","m","b","i","n","a","t","i","o","n"," ","C","o","u","n","t","s",":","\n">>
PortColumns == <<"P","o","r","t",",","P","r","o","t","o","c","o","l",",","C","o","u","n","t","\n">>

\* f"{tag},{count}\n"
TagLine(item) == Format(item[1]) \o <<",">> \o str(item[2]) \o <<"\n">>

\* f"{port},{protocol},{count}\n"
PortLine(item) ==
    Format(item[1][1]) \o <<",">> \o Format(item[1][2]) \o <<",">>
        \o str(item[2]) \o <<"\n">>

TagLines(items) == [i \in 1..Len(items) |-> TagLine(items[i])]
PortLines(items) == [i \in 1..Len(items) |-> PortLine(items[i])]

\* `except Exception as e` of write_output: log the error, then raise
WriteExceptMutant(e) == [logged |-> TRUE, reraise |-> "none"]

WriteExcept(e) == [logged |-> TRUE, reraise |-> e]

\* exception e inside the try block of write_output
WriteFails(e) ==
    /\ raisedBy' = "write"
    /\ log' = IF WriteExcept(e).logged
              THEN Append(log, <<"ERROR", "error writing output", e>>)
              ELSE log
    /\ exc' = WriteExcept(e).reraise
    /\ pc' = AfterStage("done", exc')
    /\ UNCHANGED completed

\* open(output_file, mode='w'): truncates the file, or raises OSError
WriteOpen ==
    /\ pc = "write"
    /\ started' = Append(started, "write")
    /\ \/ /\ outOpened' = TRUE
          /\ output' = <<>>
          /\ pc' = AfterStage("write_tags", exc)
          /\ UNCHANGED <<exc, raisedBy, log, completed>>
       \/ /\ WriteFails("OSError")
          /\ UNCHANGED <<outOpened, output>>
    /\ UNCHANGED <<escaped, sorted_counts, sorted_protocols>>
    /\ UNCHANGED <<loaderVars, processorVars>>

\* the tag section: two headings, sorted(), one line per item; any write
\* may raise OSError, leaving the k lines written before it
WriteTags ==
    /\ pc = "write_tags"
    /\ LET items == SortedCounts(tag_counts)
           lines == <<TagHeading, TagColumns>> \o TagLines(items)
       IN \E k \in 0..Len(lines) :
             /\ output' = output \o SubSeq(lines, 1, k)
             /\ sorted_counts' = IF k >= 2 THEN items ELSE sorted_counts
             /\ IF k = Len(lines)
                THEN /\ pc' = AfterStage("write_ports", exc)
                     /\ UNCHANGED <<exc, raisedBy, log, completed>>
                ELSE WriteFails("OSError")
    /\ UNCHANGED <<escaped, started, outOpened, sorted_protocols>>
    /\ UNCHANGED <<loaderVars, processorVars>>

\* the port/protocol section, the close of the file and the success message
WritePorts ==
    /\ pc = "write_ports"
    /\ LET items == SortedProtocols(port_protocol_counts)
           count == Len(port_protocol_counts)
       IN \E k \in 0..(2 + count) :
             /\ output' = output \o SubSeq(<<PortHeading, PortColumns>>, 1, IF k < 2 THEN k ELSE 2)
                    \o (IF k > 2 /\ ~SortedProtocolsRaises(port_protocol_counts)
                        THEN SubSeq(PortLines(items), 1, k - 2) ELSE <<>>)
             /\ IF k < 2
                THEN /\ WriteFails("OSError")
                     /\ UNCHANGED sorted_protocols
                ELSE IF SortedProtocolsRaises(port_protocol_counts)
                THEN /\ WriteFails("ValueError")
                     /\ UNCHANGED sorted_protocols
                ELSE /\ sorted_protocols' = items
                     /\ IF k < 2 + count
                        THEN WriteFails("OSError")
                        ELSE /\ log' = Append(log, <<"INFO", "output written">>)
                             /\ completed' = Append(completed, "write")
                             /\ pc' = AfterStage("done", exc)
                             /\ UNCHANGED <<exc, raisedBy>>
    /\ UNCHANGED <<escaped, started, outOpened, sorted_counts>>
    /\ UNCHANGED <<loaderVars, processorVars>>

\* ------------------------------------------------------------- log_parser
\* the except clauses of log_parser, tried in order
ExceptClauseMutant(e) ==
    IF e = "FileNotFoundError" THEN "FileNotFoundError"
    ELSE IF e = "ValueError" THEN "ValueError"
    ELSE "uncaught"

ExceptClause(e) ==
    IF e = "FileNotFoundError" THEN "FileNotFoundError"
    ELSE IF e = "ValueError" THEN "ValueError"
    ELSE IF e \in {"PermissionError", "OSError"} THEN "Exception"
    ELSE "uncaught"

\* the matching clause logs the exception and log_parser returns
DriverExcept ==
    /\ pc = "except"
    /\ IF ExceptClause(exc) = "uncaught"
       THEN /\ escaped' = TRUE
            /\ log' = log
       ELSE /\ escaped' = escaped
            /\ log' = Append(log, <<"ERROR", "log_parser", ExceptClause(exc)>>)
    /\ pc' = "done"
    /\ UNCHANGED <<exc, raisedBy, started, completed>>
    /\ UNCHANGED <<loaderVars, processorVars, writerVars>>

Next ==
    \/ LoadStart
    \/ LoadHeader
    \/ LoadRow
    \/ LoadReturn
    \/ ProcessStart
    \/ ProcessLine
    \/ ProcessReturn
    \/ WriteOpen
    \/ WriteTags
    \/ WritePorts
    \/ DriverExcept

Spec == Init /\ [][Next]_vars

\* ================================================================= claims
Stages == <<"load", "process", "write">>

Keys(d) == { d[i][1] : i \in 1..Len(d) }

\* the count stored for k, 0 when k is not a key
CountOf(d, k) ==
    IF \E i \in 1..Len(d) : d[i][1] = k
    THEN (CHOOSE v \in { d[i][2] : i \in 1..Len(d) } :
              \E i \in 1..Len(d) : d[i] = <<k, v>>)
    ELSE 0

\* d2 is d1 with the count of k raised by one and nothing else changed
RaisedByOne(d1, d2, k) ==
    /\ Keys(d2) = Keys(d1) \cup {k}
    /\ Len(d2) = Cardinality(Keys(d2))
    /\ \A j \in Keys(d2) :
          CountOf(d2, j) = CountOf(d1, j) + (IF j = k THEN 1 ELSE 0)

RECURSIVE SumCounts(_)
SumCounts(d) == IF d = <<>> THEN 0 ELSE d[1][2] + SumCounts(Tail(d))

web == <<"w","e","b">>
tcp == <<"t","c","p">>

\* C1: a step of the line loop on a line of exactly 14 fields raises by one
\* the count of the tag the lookup table gives for (field 7, resolved name
\* of field 8), or of Untagged when the table has no such key, raises by one
\* the count of that (port, name) pair, and changes no other count; a step
\* on a line of fewer than 14 fields changes neither dict.
C1_LineCounted ==
    [][ nlines' = nlines + 1 =>
          LET f == line_split[line'] IN
          IF Len(f) = 14
          THEN LET key == <<f[7], get_protocol_name(f[8])>>
                   hits == { i \in 1..Len(lookup_table) : lookup_table[i][1] = key }
                   t == IF hits = {} THEN Untagged
                        ELSE lookup_table[CHOOSE i \in hits : TRUE][2]
               IN /\ RaisedByOne(tag_counts, tag_counts', t)
                  /\ RaisedByOne(port_protocol_counts, port_protocol_counts', key)
          ELSE Len(f) < 14 =>
                  /\ tag_counts' = tag_counts
                  /\ port_protocol_counts' = port_protocol_counts
      ]_vars

\* two lines were counted, one tagged from the table and one Untagged
C1_Witness ==
    /\ nlines = 2
    /\ CountOf(tag_counts, web) = 1
    /\ CountOf(tag_counts, Untagged) = 1
    /\ CountOf(port_protocol_counts, <<<<"8","0">>, tcp>>) = 1

\* C2: the name get_protocol_name returned for a record is always the
\* lowercase name of a protocol constant or the text unknown.
C2_ResolverTotal ==
    protocol_name # Unset =>
        protocol_name \in {unknown} \cup
            { ProtocolSuffix(SocketVars[i][1]) :
                  i \in { j \in 1..Len(SocketVars) :
                             startswith(SocketVars[j][1], IPPROTO_) } }

\* C3: once the flow log is open no line makes process_flow_logs fail:
\* after any line was read, the processor has raised nothing.
C3_NoLineFails ==
    line # Unset => raisedBy # "process"

\* C4: write_output fails on no pair of count dicts (only a failing open or
\* write stops it), and a completed report has one line per key, the tag
\* items in non-decreasing order of count and the port/protocol items in
\* non-decreasing order of (count, numeric port).
C4_ReportSorted ==
    /\ raisedBy = "write" => exc = "OSError"
    /\ Len(completed) = 3 =>
          /\ Len(sorted_counts) = Len(tag_counts)
          /\ Len(sorted_protocols) = Len(port_protocol_counts)
          /\ Keys(sorted_counts) = Keys(tag_counts)
          /\ Keys(sorted_protocols) = Keys(port_protocol_counts)
          /\ \A i \in 1..(Len(sorted_counts) - 1) :
                sorted_counts[i][2] <= sorted_counts[i + 1][2]
          /\ \A i \in 1..(Len(sorted_protocols) - 1) :
                \/ sorted_protocols[i][2] < sorted_protocols[i + 1][2]
                \/ /\ sorted_protocols[i][2] = sorted_protocols[i + 1][2]
                   /\ int(sorted_protocols[i][1][1])
                          <= int(sorted_protocols[i + 1][1][1])
          /\ output = <<TagHeading, TagColumns>> \o TagLines(sorted_counts)
                 \o <<PortHeading, PortColumns>> \o PortLines(sorted_protocols)

\* a row with fewer than 3 cells, or with a blank cell among its first three
FewerThanThreeNonBlank(r) ==
    \/ Len(r) < 3
    \/ \E i \in 1..3 : strip(r[i]) = <<>>

\* C5: a step of the row loop on a row with fewer than 3 non-blank columns
\* leaves the lookup table unchanged; on any other row it stores
\* (trimmed port, trimmed lowercased protocol) -> trimmed tag.
C5_RowRule ==
    [][ nrows' = nrows + 1 =>
          IF FewerThanThreeNonBlank(row')
          THEN lookup_table' = lookup_table
          ELSE LET key == <<strip(row'[1]), lower(strip(row'[2]))>> IN
               /\ \E i \in 1..Len(lookup_table') :
                     lookup_table'[i] = <<key, strip(row'[3])>>
               /\ \A i \in 1..Len(lookup_table) :
                     lookup_table[i][1] # key =>
                        \E j \in 1..Len(lookup_table') :
                            lookup_table'[j] = lookup_table[i]
      ]_vars

\* a first row that the row loop would have stored under a numeric port
IsDataRow(r) ==
    /\ Len(r) >= 3
    /\ \A i \in 1..3 : strip(r[i]) # <<>>
    /\ ~IntRaises(strip(r[1]))

LoaderRaisedValueError ==
    /\ raisedBy = "load"
    /\ exc = "ValueError"
    /\ pc \in {"except", "done"}
    /\ Len(completed) = 0
    /\ \E i \in 1..Len(log) : log[i] = <<"ERROR", "lookup file empty or invalid">>

\* C6 as stated: a lookup file with no first row, an empty first line or a
\* data row as its first line makes load_lookup_table raise ValueError.
C6_Original ==
    (header = NoneRow \/ header = <<>> \/ (header # UnsetRow /\ IsDataRow(header)))
        => LoaderRaisedValueError

\* C6 amended: load_lookup_table raises ValueError and returns no table
\* exactly when the file has no first row or its first line is empty; any
\* other first row, a data row included, is taken as the header.
C6_HeaderCheck ==
    header # UnsetRow =>
        ((header = NoneRow \/ header = <<>>) <=> LoaderRaisedValueError)

\* an empty first line was rejected
C6_Witness ==
    /\ header = <<>>
    /\ LoaderRaisedValueError
    /\ pc = "done"

\* C7: no exception leaves log_parser, and when a run has ended after a
\* stage raised, the last record of the process log is the error record of
\* the except clause of log_parser that caught it.
C7_DriverCatchesAll ==
    /\ ~escaped
    /\ pc = "done" /\ exc # "none" =>
          /\ log # <<>>
          /\ log[Len(log)][1] = "ERROR"
          /\ log[Len(log)][2] = "log_parser"

\* an I/O error of the writer was caught by the generic clause
C7_Witness ==
    /\ pc = "done"
    /\ exc = "OSError"
    /\ log[Len(log)] = <<"ERROR", "log_parser", "Exception">>

\* C8: when write_output has failed, the exception is in flight to, or was
\* caught by, log_parser; the error record of write_output is in the log
\* before any record of log_parser; the success message is not in the log.
C8_WriterLogsAndRaises ==
    raisedBy = "write" =>
        /\ exc \in {"OSError", "ValueError"}
        /\ pc \in {"except", "done"}
        /\ Len(completed) = 2
        /\ \E i \in 1..Len(log) :
              /\ log[i] = <<"ERROR", "error writing output", exc>>
              /\ \A j \in (i + 1)..Len(log) : log[j][2] = "log_parser"
              /\ pc = "done" => i < Len(log)
        /\ \A i \in 1..Len(log) : log[i] # <<"INFO", "output written">>

\* a write failed after the tag section and one port/protocol line
C8_Witness ==
    /\ raisedBy = "write"
    /\ exc = "OSError"
    /\ pc = "done"
    /\ sorted_protocols # UnsetRow
    /\ Len(output) > 5

\* C9: the stages are entered in the order load, process, write, each at
\* most once and only after the stage before it has returned normally; when
\* the loader or the processor raised, the output file is never opened and
\* still holds what it held before the run.
C9_StageOrder ==
    /\ Len(started) <= 3
    /\ \A i \in 1..Len(started) : started[i] = Stages[i]
    /\ Len(completed) <= Len(started)
    /\ \A i \in 1..Len(completed) : completed[i] = Stages[i]
    /\ Len(started) <= Len(completed) + 1
    /\ raisedBy \in {"load", "process"} =>
          /\ ~outOpened
          /\ output = <<OldReport>>
          /\ started[Len(started)] = raisedBy

\* the processor raised and the run ended with the output file untouched
C9_Witness ==
    /\ pc = "done"
    /\ raisedBy = "process"
    /\ started = <<"load", "process">>
    /\ output = <<OldReport>>

\* C10: at every point of the line loop the counts of both dicts add up to
\* the number of lines accepted so far, and no stored count is below 1.
C10_CountsAddUp ==
    /\ SumCounts(tag_counts) = accepted
    /\ SumCounts(port_protocol_counts) = accepted
    /\ \A i \in 1..Len(tag_counts) : tag_counts[i][2] >= 1
    /\ \A i \in 1..Len(port_protocol_counts) : port_protocol_counts[i][2] >= 1

\* two lines accepted under one tag and two port/protocol pairs, and the
\* loop still running
C10_Witness ==
    /\ pc = "process_lines"
    /\ accepted = 2
    /\ Len(tag_counts) = 1
    /\ Len(port_protocol_counts) = 2

====
